---- MODULE Spec2Model ----
(***************************************************************************)
(* A model of YellowNetworkService (backend/src/services/                  *)
(* yellowNetworkService.js): the WebSocket connection manager, the         *)
(* authentication handshake, the request correlator (requestMap and        *)
(* pendingByMethod) and the application-session registry (appSessions).    *)
(*                                                                         *)
(* One action is one macrotask of the Node.js event loop: a public method  *)
(* called by a route handler, a socket event handler, or a timer callback, *)
(* together with the promise reactions (microtasks) it triggers.  The      *)
(* awaits on createAuthRequestMessage, createAuthVerifyMessage and the     *)
(* message signer do no I/O, so no socket or timer event runs in between.  *)
(***************************************************************************)
EXTENDS Integers, Sequences, FiniteSets, TLC

\* ---------------------------------------------------------------- bounds
MaxSockets == 2
MaxRequests == 2
MaxRequestId == 3
MaxClock == 1
MaxAmount == 1
MaxSessionId == 1
MaxSessionRequests == 3
MaxFallbackRequests == 3
MaxInitializeCalls == 2

\* ------------------------------------------------------ program constants
sessionDuration == 3600

Sockets == 1..MaxSockets
RequestIds == 1..MaxRequestId
Amounts == 1..MaxAmount
ServerSessionIds == 1..MaxSessionId
Customers == {"0xAAA"}
Merchants == {"0xBBB"}

\* WebSocket.readyState of the ws library; NONE: the socket is not created yet.
NONE == "NONE"
CONNECTING == "CONNECTING"
OPEN == "OPEN"
CLOSING == "CLOSING"
CLOSED == "CLOSED"

VARIABLES
  process,                 \* "running" | "exited" (uncaught exception)
  ws,                      \* this.ws: 0 is null, else a socket
  readyState,              \* per socket: WebSocket.readyState
  connectPromise,          \* per connect() call (one per socket): none | pending | resolved | rejected
  connectionTimeout,       \* per connect() call: the 10 s timer is armed
  keepAliveInterval,       \* this.keepAliveInterval is armed
  isConnected,
  isAuthenticated,
  isAuthAttempted,
  sessionExpireTimestamp,  \* 0 is null
  requestMap,              \* Map requestId -> handler; the handler is named by its request
  pendingByMethod,         \* array of pending-by-method records, each named by its request
  requests,                \* every sendRequest that registered: its promise, timer and continuation
  appSessions,             \* Map sessionId -> session object (an index of sessions)
  sessions,                \* the session objects ever created (the heap)
  now,                     \* the last reading of Date.now()
  handshake,               \* the expire in the last auth request and auth verify written
  yellowNetworkService,    \* the module's singleton is set (FALSE: null)
  laterCalls               \* initializeYellowNetwork() calls that returned the existing singleton

vars == << process, ws, readyState, connectPromise, connectionTimeout, keepAliveInterval,
           isConnected, isAuthenticated, isAuthAttempted, sessionExpireTimestamp,
           requestMap, pendingByMethod, requests, appSessions, sessions, now, handshake,
           yellowNetworkService, laterCalls >>

\* ------------------------------------------------------------ method names
\* A method name is a string; Spell gives its characters, which normalizeMethod works on.
Spell(name) ==
  CASE name = "get_channels" -> << "g","e","t","_","c","h","a","n","n","e","l","s" >>
    [] name = "GetChannels" -> << "G","e","t","C","h","a","n","n","e","l","s" >>
    [] name = "get_ledger_balances" ->
         << "g","e","t","_","l","e","d","g","e","r","_","b","a","l","a","n","c","e","s" >>
    [] name = "create_app_session" ->
         << "c","r","e","a","t","e","_","a","p","p","_","s","e","s","s","i","o","n" >>
    [] name = "close_app_session" ->
         << "c","l","o","s","e","_","a","p","p","_","s","e","s","s","i","o","n" >>
    [] name = "auth_challenge" -> << "a","u","t","h","_","c","h","a","l","l","e","n","g","e" >>
    [] name = "auth_verify" -> << "a","u","t","h","_","v","e","r","i","f","y" >>
    [] name = "error" -> << "e","r","r","o","r" >>
    [] name = "bu" -> << "b","u" >>
    [] OTHER -> << >>

LowerCaseLetters ==
  { "a","b","c","d","e","f","g","h","i","j","k","l","m",
    "n","o","p","q","r","s","t","u","v","w","x","y","z" }

toLowerCase(c) ==
  CASE c = "G" -> "g"
    [] c = "C" -> "c"
    [] OTHER -> c

IsLowerCaseLetter(c) == c \in LowerCaseLetters

\* String(m || '').toLowerCase().replace(/[^a-z]/g, '')
normalizeMethod(m) ==
  LET chars == Spell(m)
      lowered == [i \in 1..Len(chars) |-> toLowerCase(chars[i])]
  IN SelectSeq(lowered, IsLowerCaseLetter)

\* Every method name of the model, and its normal form, computed once.
MethodNames ==
  { "get_channels", "GetChannels", "get_ledger_balances", "create_app_session",
    "close_app_session", "auth_challenge", "auth_verify", "error", "bu" }

NormalForm == [name \in MethodNames |-> normalizeMethod(name)]

\* RPCMethod of @erc7824/nitrolite, as far as handleMessage reads it.
AuthChallenge == "auth_challenge"
AuthVerify == "auth_verify"
Error == "error"

\* ---------------------------------------------------------------- messages
\* A parsed inbound message (parseAnyRPCResponse): requestId 0 is "no id";
\* success is params.success, balanceUpdates is params.balanceUpdates being
\* present, app_session_id is params[0].app_session_id (0: absent).
Msg(id, method, success, bu, sid) ==
  [ requestId |-> id, method |-> method, success |-> success,
    balanceUpdates |-> bu, app_session_id |-> sid ]

\* The ids the server echoes: ids are named in the order of their first use,
\* so MaxRequests requests draw their ids from 1..MaxRequests.
EchoIds == 1..MaxRequests

\* The messages the server may send.  Without an id: every method, in both
\* spellings of get_channels, a balance update, a session response with and
\* without app_session_id, and the handshake messages.  With the id of a
\* request: a plain response, a session response and an error response (the
\* id tier of the correlator does not read the method).
Messages ==
  { Msg(0, m, FALSE, FALSE, 0) :
      m \in { "get_channels", "GetChannels", "get_ledger_balances",
              "create_app_session", AuthChallenge, Error } }
  \cup { Msg(0, AuthVerify, success, FALSE, 0) : success \in BOOLEAN }
  \cup { Msg(0, "bu", FALSE, TRUE, 0) }
  \cup { Msg(0, m, FALSE, FALSE, sid) :
           m \in { "create_app_session", "close_app_session" }, sid \in ServerSessionIds }
  \cup { Msg(id, m, FALSE, FALSE, 0) : id \in EchoIds, m \in { "get_channels", Error } }
  \cup { Msg(id, "create_app_session", FALSE, FALSE, sid) :
           id \in EchoIds, sid \in ServerSessionIds }

\* ------------------------------------------------------------ the ws library
\* A close() that would leave the socket as it is: C25 must reject it.
NoClose(rs, s) == rs

\* WebSocket.close() on an open socket starts the closing handshake; on a
\* closing or closed socket it does nothing.
close(rs, s) ==
  IF rs[s] = OPEN THEN [rs EXCEPT ![s] = CLOSING] ELSE rs

\* WebSocket.close() on a connecting socket aborts the handshake: the socket
\* emits 'error' on the next tick, and the service's 'error' handler (line
\* 125) re-emits it with this.emit('error', error).  No 'error' listener is
\* ever attached to the service, so EventEmitter throws the error: an
\* uncaught exception.
Aborts(s) == s # 0 /\ readyState[s] = CONNECTING

\* WebSocket.send() without a callback, and this.ws.send when this.ws is null:
\* it throws on null and on a connecting socket, writes on an open one and
\* drops the data on a closing or closed one.
SendOutcome(s) ==
  IF s = 0 THEN "throws"
  ELSE CASE readyState[s] = CONNECTING -> "throws"
         [] readyState[s] = OPEN -> "sent"
         [] OTHER -> "dropped"

\* ------------------------------------------------------------------ records
\* The words of the Error a promise is rejected with; << >>: not rejected.
NoError == << >>

\* The handshake frames the service has written: the expire of the auth
\* request of the latest attempt, and of the auth verify written since
\* (0: none written).
Handshake(request, verify) == [ request |-> request, verify |-> verify ]

SessionKeys == ServerSessionIds \cup { -k : k \in 1..MaxSessionRequests }

NoArgs == [ customerAddress |-> "", merchantAddress |-> "", amount |-> 0, allocations |-> << >> ]

\* ---------------------------------------------------------------- constructor
Init ==
  /\ process = "running"
  /\ ws = 0
  /\ readyState = [s \in Sockets |-> NONE]
  /\ connectPromise = [s \in Sockets |-> "none"]
  /\ connectionTimeout = [s \in Sockets |-> FALSE]
  /\ keepAliveInterval = FALSE
  /\ isConnected = FALSE
  /\ isAuthenticated = FALSE
  /\ isAuthAttempted = FALSE
  /\ sessionExpireTimestamp = 0
  /\ requestMap = [id \in RequestIds |-> 0]
  /\ pendingByMethod = << >>
  /\ requests = << >>
  /\ appSessions = [k \in SessionKeys |-> 0]
  /\ sessions = << >>
  /\ now = 0
  /\ handshake = Handshake(0, 0)
  /\ yellowNetworkService = FALSE
  /\ laterCalls = 0

\* An uncaught exception ends the Node.js process: its memory is gone.
Exit ==
  /\ process' = "exited"
  /\ ws' = 0
  /\ readyState' = [s \in Sockets |-> NONE]
  /\ connectPromise' = [s \in Sockets |-> "none"]
  /\ connectionTimeout' = [s \in Sockets |-> FALSE]
  /\ keepAliveInterval' = FALSE
  /\ isConnected' = FALSE
  /\ isAuthenticated' = FALSE
  /\ isAuthAttempted' = FALSE
  /\ sessionExpireTimestamp' = 0
  /\ requestMap' = [id \in RequestIds |-> 0]
  /\ pendingByMethod' = << >>
  /\ requests' = << >>
  /\ appSessions' = [k \in SessionKeys |-> 0]
  /\ sessions' = << >>
  /\ now' = 0
  /\ handshake' = Handshake(0, 0)
  /\ yellowNetworkService' = FALSE
  /\ laterCalls' = 0


\* ------------------------------------------------------------- the correlator
RemoveAt(seq, i) == SubSeq(seq, 1, i - 1) \o SubSeq(seq, i + 1, Len(seq))

Minimum(S) == CHOOSE x \in S : \A y \in S : x <= y

\* findIndex: the first index whose record satisfies the test, 0 for -1.
findIndex(seq, Test(_)) ==
  LET hits == { i \in 1..Len(seq) : Test(seq[i]) }
  IN IF hits = {} THEN 0 ELSE Minimum(hits)

\* The fields of the pending-by-method record a request pushed (line 804).
PendingMethod(r) == NormalForm[requests[r].expectedMethod]
PendingRequestId(r) == requests[r].requestId

\* message?.requestId ?? message?.reqId ?? ... ?? message?.id: the parsed
\* message carries its id as requestId; 0 stands for undefined.
inferredRequestId(message) == message.requestId

\* resolvePendingRequest up to the call of the chosen resolve function:
\* the maps as it leaves them, the request whose resolve function it calls
\* (0: none) and the tier that matched.
resolvePendingRequest(message) ==
  LET id == inferredRequestId(message)
      responseMethod == NormalForm[message.method]
      MethodIs(r) == PendingMethod(r) = responseMethod
      index == findIndex(pendingByMethod, MethodIs)
  IN IF id # 0 /\ id \in RequestIds /\ requestMap[id] # 0
     THEN [ requestMap |-> [requestMap EXCEPT ![id] = 0],
            pendingByMethod |-> pendingByMethod,
            target |-> requestMap[id], tier |-> "id" ]
     ELSE IF responseMethod # << >> /\ Len(pendingByMethod) > 0 /\ index # 0
     THEN [ requestMap |-> requestMap,
            pendingByMethod |-> RemoveAt(pendingByMethod, index),
            target |-> pendingByMethod[index], tier |-> "method" ]
     ELSE IF Len(pendingByMethod) = 1
     THEN [ requestMap |-> requestMap,
            pendingByMethod |-> Tail(pendingByMethod),
            target |-> pendingByMethod[1], tier |-> "single" ]
     ELSE [ requestMap |-> requestMap, pendingByMethod |-> pendingByMethod,
            target |-> 0, tier |-> "none" ]

\* The value a resolve function passes on to the promise: resolve(message).
ResolveValue(message) == message

\* A settlement that would clear the timer and leave the promise pending:
\* C6 must reject it.
ClearTimerOnly(reqs, r, outcome, error) == [reqs EXCEPT ![r].timer = FALSE]

\* A promise settles once: resolving or rejecting a settled promise does nothing.
\* Every resolve and reject function of a request first clears its timeout.
Settle(reqs, r, outcome, error) ==
  [reqs EXCEPT ![r] = IF @.state = "pending"
                      THEN [@ EXCEPT !.timer = FALSE, !.state = outcome, !.error = error]
                      ELSE [@ EXCEPT !.timer = FALSE]]

Pending(r) == r \in 1..Len(requests) /\ requests[r].state = "pending"

\* ------------------------------------------------------ the session registry
\* `session_${Date.now()}_${Math.random()...}`: a fresh local id.
SynthesizedSessionId == -(Len(sessions) + 1)

\* Which branch the code after `await this.sendRequest(message, 'create_app_session')` takes.
CreateBranch(response) ==
  IF response.method = "bu" /\ response.balanceUpdates THEN "balanceUpdate"
  ELSE IF response.app_session_id # 0 THEN "app_session_id"
  ELSE "invalid"

CreatedSessionId(response) ==
  IF CreateBranch(response) = "balanceUpdate" THEN SynthesizedSessionId
  ELSE response.app_session_id

NewSession(sessionId, args, t) ==
  [ sessionId |-> sessionId, customerAddress |-> args.customerAddress,
    merchantAddress |-> args.merchantAddress, amount |-> args.amount,
    status |-> "open", createdAt |-> t, completedAt |-> 0, biometricHash |-> "" ]

\* A completion that would leave completedAt unstamped: C9 must reject it.
CompleteUnstamped(session, t) ==
  [session EXCEPT !.status = "completed", !.biometricHash = "hash"]

\* session.status = 'completed'; session.completedAt = Date.now(); session.biometricHash = biometricHash
Complete(session, t) ==
  [session EXCEPT !.status = "completed", !.completedAt = t, !.biometricHash = "hash"]

\* The reaction of the caller awaiting request r when its promise resolves
\* with response: createBiometricPaymentSession registers a session,
\* processBiometricPayment completes the session object it looked up.  Both
\* read the clock (t).
ReadsClock(r, response) ==
  \/ requests[r].expectedMethod = "create_app_session" /\ CreateBranch(response) # "invalid"
  \/ requests[r].expectedMethod = "close_app_session"

\* A reaction that would delete the session it completes from the registry:
\* C20 must reject it.
DeleteOnClose(r, response, t) ==
  LET q == requests[r] IN
  IF q.expectedMethod = "create_app_session" /\ CreateBranch(response) # "invalid"
  THEN [ sessions |-> Append(sessions, NewSession(CreatedSessionId(response), q.args, t)),
         appSessions |-> [appSessions EXCEPT ![CreatedSessionId(response)] = Len(sessions) + 1] ]
  ELSE IF q.expectedMethod = "close_app_session"
  THEN [ sessions |-> [sessions EXCEPT ![q.session] = Complete(@, t)],
         appSessions |-> [k \in SessionKeys |->
                           IF appSessions[k] = q.session THEN 0 ELSE appSessions[k]] ]
  ELSE [ sessions |-> sessions, appSessions |-> appSessions ]

Continuation(r, response, t) ==
  LET q == requests[r] IN
  IF q.expectedMethod = "create_app_session" /\ CreateBranch(response) # "invalid"
  THEN [ sessions |-> Append(sessions, NewSession(CreatedSessionId(response), q.args, t)),
         appSessions |-> [appSessions EXCEPT ![CreatedSessionId(response)] = Len(sessions) + 1] ]
  ELSE IF q.expectedMethod = "close_app_session"
  THEN [ sessions |-> [sessions EXCEPT ![q.session] = Complete(@, t)],
         appSessions |-> appSessions ]
  ELSE [ sessions |-> sessions, appSessions |-> appSessions ]


\* ------------------------------------------------------------------ connect
\* The socket a connect() call creates: sockets are numbered in creation order.
NextSocket == Minimum({ s \in Sockets : readyState[s] = NONE })

\* connect() (lines 70-150) up to the registration of the handlers.
Connect ==
  /\ process = "running"
  /\ \E s \in Sockets : readyState[s] = NONE
  /\ IF Aborts(ws)
     THEN Exit
     ELSE /\ readyState' = [ (IF ws # 0 THEN close(readyState, ws) ELSE readyState)
                               EXCEPT ![NextSocket] = CONNECTING ]
          /\ ws' = NextSocket
          /\ connectPromise' = [connectPromise EXCEPT ![NextSocket] = "pending"]
          /\ connectionTimeout' = [connectionTimeout EXCEPT ![NextSocket] = TRUE]
                  /\ UNCHANGED << yellowNetworkService, laterCalls, process, keepAliveInterval, isConnected, isAuthenticated,
                          isAuthAttempted, sessionExpireTimestamp, requestMap,
                          pendingByMethod, requests, appSessions, sessions, now,
                  handshake >>

\* Date.now(): a reading never precedes the last reading, now.
Clock == now..MaxClock

\* String(Math.floor(Date.now() / 1000) + this.sessionDuration)
NewExpireTimestamp(t) == t + sessionDuration

\* An authenticate() without the guard on isAuthAttempted: C24 must reject it.
authenticateUnguarded(t) ==
  [ isAuthAttempted |-> TRUE, sessionExpireTimestamp |-> NewExpireTimestamp(t),
    handshake |-> Handshake(NewExpireTimestamp(t), 0), now |-> t ]

\* authenticate() (lines 153-194): what it leaves in isAuthAttempted and
\* sessionExpireTimestamp, the auth request it writes, and the clock, which
\* it reads (t) only when it goes on to send.
authenticate(t) ==
  IF isAuthAttempted
  THEN [ isAuthAttempted |-> TRUE, sessionExpireTimestamp |-> sessionExpireTimestamp,
         handshake |-> handshake, now |-> now ]
  ELSE [ isAuthAttempted |-> TRUE, sessionExpireTimestamp |-> NewExpireTimestamp(t),
         handshake |-> Handshake(NewExpireTimestamp(t), 0), now |-> t ]

\* The 'open' handler (lines 88-119).  The socket that opens is this.ws: a
\* later connect() or disconnect() would have closed it while connecting.
SocketOpen(s, t) ==
  /\ process = "running"
  /\ readyState[s] = CONNECTING
  /\ t \in Clock
  /\ isAuthAttempted => t = now
  /\ readyState' = [readyState EXCEPT ![s] = OPEN]
  /\ connectionTimeout' = [connectionTimeout EXCEPT ![s] = FALSE]
  /\ isConnected' = TRUE
  /\ keepAliveInterval' = TRUE
  /\ isAuthAttempted' = authenticate(t).isAuthAttempted
  /\ sessionExpireTimestamp' = authenticate(t).sessionExpireTimestamp
  /\ now' = authenticate(t).now
  /\ connectPromise' = [connectPromise EXCEPT ![s] = IF @ = "pending" THEN "resolved" ELSE @]
  /\ handshake' = authenticate(t).handshake
  /\ UNCHANGED << yellowNetworkService, laterCalls, process, ws, isAuthenticated, requestMap, pendingByMethod,
                  requests, appSessions, sessions >>

\* The 'error' handler (lines 125-130): a connection that fails or breaks.
\* this.emit('error', error) throws, as no listener is attached (see Aborts).
SocketError(s) ==
  /\ process = "running"
  /\ readyState[s] \in { CONNECTING, OPEN, CLOSING }
  /\ Exit

\* A 'close' handler that would leave isAuthenticated as it is: C23 must
\* reject it.
CloseKeepsAuthenticated(s) ==
  /\ process = "running"
  /\ readyState[s] \in { OPEN, CLOSING }
  /\ readyState' = [readyState EXCEPT ![s] = CLOSED]
  /\ connectionTimeout' = [connectionTimeout EXCEPT ![s] = FALSE]
  /\ isConnected' = FALSE
  /\ isAuthAttempted' = FALSE
  /\ keepAliveInterval' = FALSE
  /\ UNCHANGED << yellowNetworkService, laterCalls, process, ws, connectPromise, isAuthenticated, sessionExpireTimestamp,
                  requestMap, pendingByMethod, requests, appSessions, sessions, now,
                  handshake >>

\* The 'close' handler (lines 132-143), of whichever socket closes.
SocketClose(s) ==
  /\ process = "running"
  /\ readyState[s] \in { OPEN, CLOSING }
  /\ readyState' = [readyState EXCEPT ![s] = CLOSED]
  /\ connectionTimeout' = [connectionTimeout EXCEPT ![s] = FALSE]
  /\ isConnected' = FALSE
  /\ isAuthenticated' = FALSE
  /\ isAuthAttempted' = FALSE
  /\ keepAliveInterval' = FALSE
  /\ UNCHANGED << yellowNetworkService, laterCalls, process, ws, connectPromise, sessionExpireTimestamp, requestMap,
                  pendingByMethod, requests, appSessions, sessions, now, handshake >>

\* The connection timeout of the connect() call that created s (lines 81-86).
\* Armed, s is still connecting and is this.ws, so this.ws.close() aborts it.
ConnectionTimeoutFires(s) ==
  /\ process = "running"
  /\ connectionTimeout[s]
  /\ IF ~isConnected
     THEN Exit
     ELSE /\ connectionTimeout' = [connectionTimeout EXCEPT ![s] = FALSE]
                  /\ UNCHANGED << yellowNetworkService, laterCalls, process, ws, readyState, connectPromise, keepAliveInterval,
                          isConnected, isAuthenticated, isAuthAttempted,
                          sessionExpireTimestamp, requestMap, pendingByMethod,
                          requests, appSessions, sessions, now, handshake >>


\* -------------------------------------------------------------- sendRequest
NewRequest(id, expectedMethod, session, args) ==
  [ requestId |-> id, expectedMethod |-> expectedMethod, state |-> "pending",
    error |-> NoError, timer |-> TRUE, session |-> session, args |-> args ]

\* generateRequestId() of @erc7824/nitrolite draws Date.now() plus a random
\* offset: ids may repeat.  An id is an opaque number, so the ids are named
\* in the order of their first use.
DrawnIds == { requests[r].requestId : r \in 1..Len(requests) }

generateRequestId == { id \in RequestIds : id = 1 \/ id - 1 \in DrawnIds }

\* A sendRequest that would write the message without the requestMap entry:
\* C26 must reject it.
NoRegister(id, r) == requestMap

\* this.requestMap.set(requestId, {...}) for the request numbered r.
Register(id, r) == [requestMap EXCEPT ![id] = r]

\* this.pendingByMethod.push({ method, requestId, resolve, reject, timeoutId })
Track(r) == Append(pendingByMethod, r)

\* sendRequest (lines 766-809) called with a message whose req[0] is id.  With no open socket it rejects at once and registers nothing.
sendRequest(id, expectedMethod, session, args) ==
  /\ ws # 0
  /\ readyState[ws] = OPEN
  /\ id \in generateRequestId
  /\ requests' = Append(requests, NewRequest(id, expectedMethod, session, args))
  /\ requestMap' = Register(id, Len(requests) + 1)
  /\ pendingByMethod' = Track(Len(requests) + 1)
  /\ UNCHANGED << yellowNetworkService, laterCalls, process, ws, readyState, connectPromise, connectionTimeout,
                  keepAliveInterval, isConnected, isAuthenticated, isAuthAttempted,
                  sessionExpireTimestamp, appSessions, sessions, now, handshake >>

\* this.wallet.address: the address of the service wallet.
walletAddress == "0xCCC"

\* Number.prototype.toString(): the decimal digits of a natural number.
Digit(d) ==
  CASE d = 0 -> "0" [] d = 1 -> "1" [] d = 2 -> "2" [] d = 3 -> "3" [] d = 4 -> "4"
    [] d = 5 -> "5" [] d = 6 -> "6" [] d = 7 -> "7" [] d = 8 -> "8" [] d = 9 -> "9"

RECURSIVE toString(_)
toString(n) ==
  IF n < 10 THEN << Digit(n) >> ELSE toString(n \div 10) \o << Digit(n % 10) >>

Allocation(participant, amount) ==
  [ participant |-> participant, asset |-> "usdc", amount |-> amount ]

\* allocations of createBiometricPaymentSession (lines 511-527)
allocations(customerAddress, merchantAddress, amount) ==
  << Allocation(customerAddress, toString(amount)),
     Allocation(merchantAddress, << "0" >>),
     Allocation(walletAddress, << "0" >>) >>

\* Final allocations that would leave the funds with the customer: C13 must
\* reject them.
UnsettledAllocations(session) ==
  << Allocation(session.customerAddress, toString(session.amount)),
     Allocation(session.merchantAddress, << "0" >>),
     Allocation(walletAddress, << "0" >>) >>

\* finalAllocations of processBiometricPayment (lines 611-627)
finalAllocations(session) ==
  << Allocation(session.customerAddress, << "0" >>),
     Allocation(session.merchantAddress, toString(session.amount)),
     Allocation(walletAddress, << "0" >>) >>

\* getChannels (lines 372-388); the id is the one the message builder drew.
GetChannels(id) ==
  /\ process = "running"
  /\ isAuthenticated
  /\ sendRequest(id, "get_channels", 0, NoArgs)

\* getLedgerBalances (lines 391-407)
GetLedgerBalances(id) ==
  /\ process = "running"
  /\ isAuthenticated
  /\ sendRequest(id, "get_ledger_balances", 0, NoArgs)

\* createBiometricPaymentSession (lines 492-543) up to its await.
CreateBiometricPaymentSession(id, customerAddress, merchantAddress, amount) ==
  /\ process = "running"
  /\ isAuthenticated
  /\ sendRequest(id, "create_app_session", 0,
                 [ customerAddress |-> customerAddress,
                   merchantAddress |-> merchantAddress, amount |-> amount,
                   allocations |-> allocations(customerAddress, merchantAddress, amount) ])

\* processBiometricPayment (lines 602-637) up to its await: it keeps the
\* session object it looked up, whose final allocations the close message carries.
ProcessBiometricPayment(id, sessionId) ==
  /\ process = "running"
  /\ appSessions[sessionId] # 0
  /\ sendRequest(id, "close_app_session",
                 appSessions[sessionId],
                 [ NoArgs EXCEPT
                     !.allocations = finalAllocations(sessions[appSessions[sessionId]]) ])

\* A timeout callback that would clear the whole map: C4 must reject it.
ClearRequestMap(r) == [id \in RequestIds |-> 0]

\* The timeout callback of request r (lines 776-786).  Node.js gives no
\* guarantee on the order in which due timers fire.
TimeoutRequestMap(r) == [requestMap EXCEPT ![requests[r].requestId] = 0]

TimeoutPendingByMethod(r) ==
  LET Mine(p) == /\ PendingMethod(p) = NormalForm[requests[r].expectedMethod]
                 /\ PendingRequestId(p) = requests[r].requestId
      idx == findIndex(pendingByMethod, Mine)
  IN IF Len(pendingByMethod) > 0 /\ idx # 0
     THEN RemoveAt(pendingByMethod, idx)
     ELSE pendingByMethod

TimeoutError(r) == << "Request timeout for", requests[r].expectedMethod >>

TimeoutFires(r) ==
  /\ process = "running"
  /\ r \in 1..Len(requests)
  /\ requests[r].timer
  /\ requestMap' = TimeoutRequestMap(r)
  /\ pendingByMethod' = TimeoutPendingByMethod(r)
  /\ requests' = Settle(requests, r, "rejected", TimeoutError(r))
  /\ UNCHANGED << yellowNetworkService, laterCalls, process, ws, readyState, connectPromise, connectionTimeout,
                  keepAliveInterval, isConnected, isAuthenticated, isAuthAttempted,
                  sessionExpireTimestamp, appSessions, sessions, now, handshake >>

\* --------------------------------------------------------------- disconnect
\* The handlers disconnect() rejects: the entries of requestMap, when a
\* socket exists (lines 813-817).
DisconnectHandlers ==
  IF ws # 0 THEN { requestMap[id] : id \in RequestIds } \ { 0 } ELSE {}

SettleAll(reqs, S, outcome, error) ==
  [r \in 1..Len(reqs) |-> IF r \in S THEN Settle(reqs, r, outcome, error)[r] ELSE reqs[r]]

\* new Error('Connection closed')
ConnectionClosed == << "Connection closed" >>

\* A disconnect() that would keep the session registry: C12 must reject it.
KeepSessions(map) == map

\* Map.prototype.clear(), of this.appSessions.clear() (line 826)
clear(map) == [k \in DOMAIN map |-> 0]

\* disconnect() (lines 812-827)
Disconnect ==
  /\ process = "running"
  /\ IF Aborts(ws)
     THEN Exit
     ELSE /\ requests' = SettleAll(requests, DisconnectHandlers, "rejected", ConnectionClosed)
          /\ requestMap' = IF ws # 0 THEN [id \in RequestIds |-> 0] ELSE requestMap
          /\ readyState' = IF ws # 0 THEN close(readyState, ws) ELSE readyState
          /\ ws' = 0
          /\ isConnected' = FALSE
          /\ isAuthenticated' = FALSE
          /\ isAuthAttempted' = FALSE
          /\ appSessions' = clear(appSessions)
                  /\ UNCHANGED << yellowNetworkService, laterCalls, process, connectPromise, connectionTimeout, keepAliveInterval,
                          sessionExpireTimestamp, pendingByMethod, sessions, now,
                  handshake >>

\* ------------------------------------------------------------ handleMessage
\* handleAuthChallenge (lines 229-296): "throws" without an expire timestamp
\* or when this.ws.send throws, else the outcome of the send.
handleAuthChallenge ==
  IF sessionExpireTimestamp = 0 THEN "throws" ELSE SendOutcome(ws)

\* A challenge handler that would draw a new expire: C8 must reject it.
RedrawnExpire == NewExpireTimestamp(now)

\* expire: this.sessionExpireTimestamp in the EIP-712 auth params (line 243)
AuthVerifyExpire == sessionExpireTimestamp

\* handleMessage reaches this.emit('message', response) (line 222) unless
\* the challenge handler threw into its catch block.
EmitsMessage(message) ==
  ~(message.method = AuthChallenge /\ handleAuthChallenge = "throws")

\* The 'message' handler (lines 121-123) and handleMessage (lines 197-226)
\* for message received on socket s, with the reaction of the caller whose
\* request it resolves; t is the clock when that reaction reads it.
Deliver(s, message, t) ==
  LET challenged == message.method = AuthChallenge
      threw == challenged /\ handleAuthChallenge = "throws"
      verified == challenged /\ handleAuthChallenge = "sent"
      success == ~threw /\ message.method = AuthVerify /\ message.success
      res == resolvePendingRequest(message)
      target == IF threw THEN 0 ELSE res.target
      resolves == target # 0 /\ Pending(target)
      reads == resolves /\ ReadsClock(target, ResolveValue(message))
      cont == Continuation(target, ResolveValue(message), t)
  IN
  /\ process = "running"
  /\ readyState[s] \in { OPEN, CLOSING }
  /\ t \in Clock
  /\ ~reads => t = now
  /\ now' = t
  /\ isAuthenticated' = (isAuthenticated \/ success)
  /\ isAuthAttempted' = IF threw \/ message.method = Error THEN FALSE ELSE isAuthAttempted
  /\ requestMap' = IF threw THEN requestMap ELSE res.requestMap
  /\ pendingByMethod' = IF threw THEN pendingByMethod ELSE res.pendingByMethod
  /\ requests' = IF target = 0 THEN requests
                 ELSE Settle(requests, target, "resolved", NoError)
  /\ sessions' = IF resolves THEN cont.sessions ELSE sessions
  /\ appSessions' = IF resolves THEN cont.appSessions ELSE appSessions
  /\ handshake' = IF verified THEN [handshake EXCEPT !.verify = AuthVerifyExpire]
                  ELSE handshake
  /\ UNCHANGED << yellowNetworkService, laterCalls, process, ws, readyState, connectPromise, connectionTimeout,
                  keepAliveInterval, isConnected, sessionExpireTimestamp >>

\* ----------------------------------------------------------- specification
Next ==
  \/ Connect
  \/ Disconnect
  \/ \E s \in Sockets, t \in 0..MaxClock : SocketOpen(s, t)
  \/ \E s \in Sockets : SocketError(s)
  \/ \E s \in Sockets : SocketClose(s)
  \/ \E s \in Sockets : ConnectionTimeoutFires(s)
  \/ \E s \in Sockets, message \in Messages, t \in 0..MaxClock : Deliver(s, message, t)
  \/ \E id \in RequestIds : Len(requests) < MaxRequests /\ GetChannels(id)
  \/ \E id \in RequestIds : Len(requests) < MaxRequests /\ GetLedgerBalances(id)
  \/ \E id \in RequestIds, c \in Customers, m \in Merchants, a \in Amounts :
       Len(requests) < MaxRequests /\ CreateBiometricPaymentSession(id, c, m, a)
  \/ \E id \in RequestIds, k \in SessionKeys :
       Len(requests) < MaxRequests /\ ProcessBiometricPayment(id, k)
  \/ \E r \in 1..MaxRequests : TimeoutFires(r)

\* One service instance from its construction on, whoever constructed it: the
\* module's singleton is the matter of InitializeSpec.
Spec == Init /\ [][Next]_vars

\* A timer armed with setTimeout fires unless it is cleared first: the event
\* loop runs every due timer of a running process.
FairSpec == Spec /\ \A r \in 1..MaxRequests : WF_vars(TimeoutFires(r))

\* The payment flow of the routes on one connection: sessions are opened
\* and closed, up to MaxSessionRequests requests, each under an id of its
\* own, and the server answers each request under its id.
SessionMessages ==
  { Msg(0, AuthVerify, TRUE, FALSE, 0) }
  \cup { Msg(id, "get_channels", FALSE, FALSE, 0) : id \in RequestIds }
  \cup { Msg(id, "create_app_session", FALSE, FALSE, sid) :
           id \in RequestIds, sid \in ServerSessionIds }

SessionNext ==
  \/ ws = 0 /\ Connect
  \/ \E s \in Sockets, t \in 0..MaxClock : SocketOpen(s, t)
  \/ \E s \in Sockets, message \in SessionMessages, t \in 0..MaxClock :
       Deliver(s, message, t)
  \/ \E id \in RequestIds, c \in Customers, m \in Merchants, a \in Amounts :
       /\ Len(requests) < MaxSessionRequests /\ id \notin DrawnIds
       /\ CreateBiometricPaymentSession(id, c, m, a)
  \/ \E id \in RequestIds, k \in SessionKeys :
       /\ Len(requests) < MaxSessionRequests /\ id \notin DrawnIds
       /\ ProcessBiometricPayment(id, k)

SessionSpec == Init /\ [][SessionNext]_vars

\* The query flow of the routes on one connection: up to MaxFallbackRequests
\* getChannels and getLedgerBalances requests, each under an id of its own;
\* the server answers under the request's id or, for servers that omit
\* correlation ids, with the method alone; unanswered requests time out.
FallbackMessages ==
  { Msg(0, AuthVerify, TRUE, FALSE, 0) }
  \cup { Msg(0, m, FALSE, FALSE, 0) : m \in { "get_channels", "get_ledger_balances" } }
  \cup { Msg(id, "get_channels", FALSE, FALSE, 0) : id \in RequestIds }

FallbackNext ==
  \/ ws = 0 /\ Connect
  \/ \E s \in Sockets, t \in 0..MaxClock : SocketOpen(s, t)
  \/ \E s \in Sockets, message \in FallbackMessages, t \in 0..MaxClock :
       Deliver(s, message, t)
  \/ \E id \in RequestIds :
       /\ Len(requests) < MaxFallbackRequests /\ id \notin DrawnIds
       /\ GetChannels(id)
  \/ \E id \in RequestIds :
       /\ Len(requests) < MaxFallbackRequests /\ id \notin DrawnIds
       /\ GetLedgerBalances(id)
  \/ \E r \in 1..MaxFallbackRequests : TimeoutFires(r)

FallbackSpec == Init /\ [][FallbackNext]_vars

\* initializeYellowNetwork() (lines 834-849).  The first call sets the
\* singleton to a new instance and awaits its connect(), so its promise is
\* the promise of that connect(); the new instance has no socket yet, so
\* connect() closes none.  A later call finds the singleton set and returns
\* it at once.
InitializeYellowNetwork ==
  /\ process = "running"
  /\ IF ~yellowNetworkService
     THEN /\ yellowNetworkService' = TRUE
          /\ ws = 0 /\ readyState[1] = NONE
          /\ readyState' = [readyState EXCEPT ![1] = CONNECTING]
          /\ ws' = 1
          /\ connectPromise' = [connectPromise EXCEPT ![1] = "pending"]
          /\ connectionTimeout' = [connectionTimeout EXCEPT ![1] = TRUE]
          /\ UNCHANGED << process, keepAliveInterval, isConnected, isAuthenticated,
                          isAuthAttempted, sessionExpireTimestamp, requestMap,
                          pendingByMethod, requests, appSessions, sessions, now,
                          handshake, laterCalls >>
     ELSE /\ laterCalls < MaxInitializeCalls
          /\ laterCalls' = laterCalls + 1
          /\ UNCHANGED << process, ws, readyState, connectPromise, connectionTimeout,
                          keepAliveInterval, isConnected, isAuthenticated,
                          isAuthAttempted, sessionExpireTimestamp, requestMap,
                          pendingByMethod, requests, appSessions, sessions, now,
                          handshake, yellowNetworkService >>

\* The startup of server.js and the life of the singleton: handlers, timers
\* and routes act on the instance once it exists; POST /reconnect calls
\* disconnect() and connect() on it.
InitializeMessages ==
  { Msg(0, AuthChallenge, FALSE, FALSE, 0), Msg(0, AuthVerify, TRUE, FALSE, 0),
    Msg(0, Error, FALSE, FALSE, 0) }

InitializeNext ==
  \/ InitializeYellowNetwork
  \/ yellowNetworkService /\ Connect
  \/ yellowNetworkService /\ Disconnect
  \/ \E s \in Sockets, t \in 0..MaxClock : SocketOpen(s, t)
  \/ \E s \in Sockets : SocketError(s)
  \/ \E s \in Sockets : SocketClose(s)
  \/ \E s \in Sockets : ConnectionTimeoutFires(s)
  \/ \E s \in Sockets, message \in InitializeMessages, t \in 0..MaxClock :
       Deliver(s, message, t)

InitializeSpec == Init /\ [][InitializeNext]_vars

\* ------------------------------------------------------------------ claims
Resolved(r) == r \in 1..Len(requests) /\ requests[r].state = "resolved"
Rejected(r) == r \in 1..Len(requests) /\ requests[r].state = "rejected"
Settled(r) == Resolved(r) \/ Rejected(r)

\* The requests that are pending, and the places a request is recorded.
PendingRequests == { r \in 1..Len(requests) : requests[r].state = "pending" }
InRequestMap(r) == \E id \in RequestIds : requestMap[id] = r
InPendingByMethod(r) == \E i \in 1..Len(pendingByMethod) : pendingByMethod[i] = r

\* Request r goes from pending to resolved in this step.
Resolves(r) == Pending(r) /\ Resolved(r)'

\* C1 (as stated): with a single outstanding request r, handling a message
\* that echoes r's correlation id resolves r with exactly that message and
\* leaves no record of r in requestMap or in pendingByMethod.
C1_CorrelationCorrectness ==
  [][ \A r \in 1..MaxRequests :
        PendingRequests = { r }
        => \A s \in Sockets, message \in Messages, t \in 0..MaxClock :
             ( /\ inferredRequestId(message) = requests[r].requestId
               /\ Deliver(s, message, t) )
             => ( /\ Resolves(r)
                  /\ ResolveValue(message) = message
                  /\ ~InRequestMap(r)'
                  /\ ~InPendingByMethod(r)' ) ]_vars

\* C2 (as stated): whenever the promise of a connect() call resolves,
\* isAuthenticated is true.
C2_ConnectResolvesAuthenticated ==
  [][ \A s \in Sockets :
        (connectPromise[s] = "pending" /\ connectPromise'[s] = "resolved")
        => isAuthenticated' ]_vars

\* The pending requests whose expected method has the normal form of the
\* method of message.
PendingWithMethod(message) ==
  { r \in PendingRequests : PendingMethod(r) = NormalForm[message.method] }

\* message carries no correlation id that matches a pending request.
NoIdMatch(message) ==
  \/ inferredRequestId(message) = 0
  \/ \A r \in PendingRequests : requests[r].requestId # inferredRequestId(message)

\* C3 (as stated): a message without a matching correlation id whose
\* normalized method equals the expected method of exactly one pending
\* request resolves that request, whatever requests came before.
C3_FallbackMatching ==
  [][ \A r \in 1..MaxRequests :
        Pending(r)
        => \A s \in Sockets, message \in Messages, t \in 0..MaxClock :
             ( /\ NoIdMatch(message)
               /\ PendingWithMethod(message) = { r }
               /\ Deliver(s, message, t) )
             => Resolves(r) ]_vars

\* Request r was rejected by its own timeout.
TimedOut(r) == Rejected(r) /\ requests[r].error = TimeoutError(r)

\* No other request was sent under the correlation id of r.
OwnId(r) ==
  \A q \in 1..Len(requests) : q # r => requests[q].requestId # requests[r].requestId

\* The pending-by-method records pushed under correlation id, in order.
EntriesUnder(id) ==
  LET Under(q) == PendingRequestId(q) = id IN SelectSeq(pendingByMethod, Under)

C5_DisconnectClearsAll ==
  [][ (Disconnect /\ process' = "running")
      => ( /\ \A r \in PendingRequests :
                Rejected(r)' /\ requests'[r].error = ConnectionClosed
           /\ \A id \in RequestIds : requestMap'[id] = 0 ) ]_vars

\* C6: under fair timer firing every registered request is eventually
\* settled: resolved, rejected for timeout or rejected for connection
\* closed, as long as the process runs.
C6_EventuallySettled ==
  \A r \in 1..MaxRequests : Pending(r) ~> (Settled(r) \/ process = "exited")

\* C6 witness: every request that was sent is settled, one resolved by a
\* message and one rejected by its own timeout.
C6_Witness ==
  /\ Len(requests) = MaxRequests
  /\ \A r \in 1..Len(requests) : Settled(r)
  /\ \E r \in 1..Len(requests) : Resolved(r)
  /\ \E r \in 1..Len(requests) : TimedOut(r)

\* C7 (as stated): no correlated request is registered and sent while
\* isAuthenticated is false.
C7_NoRequestBeforeAuthenticated ==
  [][ Len(requests') > Len(requests) => isAuthenticated ]_vars

\* C8: the expire of every auth verify written equals the expire of the
\* auth request of the latest attempt, and every attempt that authenticate()
\* starts draws its expire from the clock at that moment.
C8_ExpireBinding ==
  [][ /\ handshake'.verify # 0 => handshake'.verify = handshake'.request
      /\ (~isAuthAttempted /\ isAuthAttempted')
         => ( /\ handshake'.request = NewExpireTimestamp(now')
              /\ sessionExpireTimestamp' = handshake'.request
              /\ handshake'.verify = 0 ) ]_vars

\* C8 witness: after a first connection was opened and closed, an attempt on
\* the second connection drew a later expire, and its auth verify carries it.
C8_Witness ==
  /\ readyState[1] = CLOSED /\ ws = 2 /\ readyState[2] = OPEN
  /\ handshake.request > sessionDuration
  /\ handshake.verify = handshake.request

\* C9: a session is registered with status 'open'; when the close request
\* of processBiometricPayment resolves, its session has status 'completed'
\* and a completedAt that is at least its createdAt, which is unchanged.
C9_SessionLifecycle ==
  [][ /\ Len(sessions') > Len(sessions)
         => ( /\ sessions'[Len(sessions')].status = "open"
              /\ appSessions'[sessions'[Len(sessions')].sessionId] = Len(sessions') )
      /\ \A r \in 1..MaxRequests :
           (Resolves(r) /\ requests[r].expectedMethod = "close_app_session")
           => ( /\ sessions'[requests[r].session].status = "completed"
                /\ sessions'[requests[r].session].createdAt
                     = sessions[requests[r].session].createdAt
                /\ sessions'[requests[r].session].completedAt
                     >= sessions'[requests[r].session].createdAt ) ]_vars

\* C9 witness: a session opened by request 1 and completed by request 2,
\* which was sent for it and resolved, at a later clock reading.
C9_Witness ==
  /\ Resolved(1) /\ requests[1].expectedMethod = "create_app_session"
  /\ Resolved(2) /\ requests[2].expectedMethod = "close_app_session"
  /\ requests[2].session = 1
  /\ Len(sessions) = 1
  /\ sessions[1].status = "completed"
  /\ sessions[1].completedAt > sessions[1].createdAt

\* C10 (as stated): once the session registered under a session id is
\* 'completed', the session registered under that id is never 'open' again.
C10_NeverBackward ==
  [][ \A k \in SessionKeys :
        (appSessions[k] # 0 /\ sessions[appSessions[k]].status = "completed")
        => (appSessions'[k] # 0 => sessions'[appSessions'[k]].status # "open") ]_vars

\* C11 (as stated): in every reachable state no two pending requests share
\* a correlation id, so that no request's timeout or response can remove
\* the record of another request.
C11_OnePendingPerId ==
  \A a, b \in PendingRequests :
    a # b => requests[a].requestId # requests[b].requestId

\* C12: every disconnect() leaves isConnected, isAuthenticated and
\* isAuthAttempted false, this.ws null and the session registry empty.
C12_DisconnectPostState ==
  [][ Disconnect
      => ( /\ ~isConnected' /\ ~isAuthenticated' /\ ~isAuthAttempted'
           /\ ws' = 0
           /\ \A k \in SessionKeys : appSessions'[k] = 0 ) ]_vars

\* C12 witness: disconnect() was called on a socket, which is closing and
\* no longer this.ws, with a session registered: the process runs on with
\* the flags false and the registry empty.
C12_Witness ==
  /\ process = "running" /\ ws = 0
  /\ \E s \in Sockets : readyState[s] = CLOSING
  /\ Len(sessions) > 0
  /\ \A k \in SessionKeys : appSessions[k] = 0
  /\ ~isConnected /\ ~isAuthenticated /\ ~isAuthAttempted

\* The number a decimal string denotes, and the total of an allocation list.
RECURSIVE Value(_)
Value(digits) ==
  IF digits = << >> THEN 0
  ELSE 10 * Value(SubSeq(digits, 1, Len(digits) - 1))
       + (CHOOSE d \in 0..9 : Digit(d) = digits[Len(digits)])

RECURSIVE Total(_)
Total(allocs) ==
  IF allocs = << >> THEN 0 ELSE Value(Head(allocs).amount) + Total(Tail(allocs))

\* Request r is sent in this step.
Sends(r) == Len(requests) < r /\ r <= Len(requests')

\* C13: a session-open request allocates the full amount to the customer
\* and zero to the merchant and the service wallet; the session is
\* registered with the amount of the open request that created it; a close
\* request allocates zero to the customer, the session's amount to the
\* merchant and zero to the service wallet: the totals of the open and the
\* close request of a session are the same.
C13_Allocations ==
  [][ \A r \in 1..MaxRequests :
        /\ (Sends(r) /\ requests'[r].expectedMethod = "create_app_session")
           => LET q == requests'[r].args IN
              /\ q.allocations
                   = << Allocation(q.customerAddress, toString(q.amount)),
                        Allocation(q.merchantAddress, << "0" >>),
                        Allocation(walletAddress, << "0" >>) >>
              /\ Total(q.allocations) = q.amount
        /\ (Resolves(r) /\ Len(sessions') > Len(sessions))
           => sessions'[Len(sessions')].amount = Total(requests[r].args.allocations)
        /\ (Sends(r) /\ requests'[r].expectedMethod = "close_app_session")
           => LET session == sessions[requests'[r].session]
                  final == requests'[r].args.allocations IN
              /\ final = << Allocation(session.customerAddress, << "0" >>),
                            Allocation(session.merchantAddress, toString(session.amount)),
                            Allocation(walletAddress, << "0" >>) >>
              /\ Total(final) = session.amount ]_vars

\* C13 witness: request 1 opened a session, request 2 is the close request
\* for it, and both messages allocate the same positive total.
C13_Witness ==
  /\ Len(requests) = 2
  /\ requests[1].expectedMethod = "create_app_session" /\ Resolved(1)
  /\ requests[2].expectedMethod = "close_app_session" /\ requests[2].session = 1
  /\ Total(requests[1].args.allocations) > 0
  /\ Total(requests[2].args.allocations) = Total(requests[1].args.allocations)
  /\ requests[2].args.allocations[2].amount = requests[1].args.allocations[1].amount

\* message acknowledges a close request: a close_app_session response that
\* carries no correlation id or the id of close request r.
Acknowledges(message, r) ==
  /\ NormalForm[message.method] = NormalForm["close_app_session"]
  /\ inferredRequestId(message) \in { 0, requests[r].requestId }

\* C14 (as stated): a session goes from 'open' to 'completed' only in a
\* step that handles the ClearNode's acknowledgment of a pending close
\* request for that session; an error response or a message of another
\* request leaves it 'open'.
C14_CompletedOnlyOnAck ==
  [][ \A i \in 1..MaxRequests :
        ( /\ i <= Len(sessions) /\ i <= Len(sessions')
          /\ sessions[i].status = "open"
          /\ sessions'[i].status = "completed" )
        => \E r \in PendingRequests, s \in Sockets, message \in Messages, t \in 0..MaxClock :
             /\ requests[r].expectedMethod = "close_app_session"
             /\ requests[r].session = i
             /\ Acknowledges(message, r)
             /\ Deliver(s, message, t) ]_vars

\* C15 (as stated): isAuthenticated becomes true only when an auth request
\* was sent in the current attempt and, a challenge having been received,
\* an auth verify was written for it; a success message in any other
\* handshake state does not set it.
C15_HandshakeOrder ==
  [][ (~isAuthenticated /\ isAuthenticated')
      => ( /\ isAuthAttempted
           /\ handshake.request # 0
           /\ handshake.verify = handshake.request ) ]_vars

\* C16 (as stated): with exactly one request r pending, a message that
\* matches no pending request by correlation id or by normalized method
\* name resolves r, with that message.
C16_SinglePendingFallback ==
  [][ \A r \in 1..MaxRequests :
        PendingRequests = { r }
        => \A s \in Sockets, message \in Messages, t \in 0..MaxClock :
             ( /\ NoIdMatch(message)
               /\ PendingWithMethod(message) = {}
               /\ Deliver(s, message, t) )
             => ( Resolves(r) /\ ResolveValue(message) = message ) ]_vars

\* C17 (as stated): a message that matches no pending request by
\* correlation id or method name, arriving while the number of pending
\* requests is not one, settles no promise, leaves requestMap and
\* pendingByMethod unchanged and is emitted to the 'message' listeners.
C17_Unroutable ==
  [][ Cardinality(PendingRequests) # 1
      => \A s \in Sockets, message \in Messages, t \in 0..MaxClock :
           ( /\ NoIdMatch(message)
             /\ PendingWithMethod(message) = {}
             /\ Deliver(s, message, t) )
           => ( /\ requests' = requests
                /\ requestMap' = requestMap
                /\ pendingByMethod' = pendingByMethod
                /\ EmitsMessage(message) ) ]_vars

\* C18 (as stated): when the timeout of request r fires, r is rejected
\* with the timeout error naming its expected method, and r has no entry
\* left in requestMap and no record left in pendingByMethod.
C18_TimeoutCleanup ==
  [][ \A r \in 1..MaxRequests :
        TimeoutFires(r)
        => ( /\ TimedOut(r)'
             /\ requests'[r].error = << "Request timeout for", requests[r].expectedMethod >>
             /\ ~InRequestMap(r)'
             /\ ~InPendingByMethod(r)' ) ]_vars

\* C19 (as stated): when several pending requests share an expected method
\* and a message of that method without correlation id is handled, the
\* earliest-registered pending request of that method is resolved.
C19_MethodFallbackOrder ==
  [][ \A message \in FallbackMessages :
        ( /\ inferredRequestId(message) = 0
          /\ Cardinality(PendingWithMethod(message)) >= 2 )
        => \A r \in PendingWithMethod(message), s \in Sockets, t \in 0..MaxClock :
             ( /\ r = Minimum(PendingWithMethod(message))
               /\ Deliver(s, message, t) )
             => Resolves(r) ]_vars

\* C20 (as stated): a session registered in the session registry stays
\* registered for as long as the process runs, whatever operation is
\* performed.
C20_SessionsNeverRemoved ==
  [][ \A k \in SessionKeys :
        (appSessions[k] # 0 /\ process' = "running") => appSessions'[k] # 0 ]_vars

\* C20 (amended): a registered session leaves the registry of a running
\* process only in a disconnect(), which empties the registry; session
\* open, close, timeout, socket close and connect remove none.
C20_RemovedOnlyByDisconnect ==
  [][ \A k \in SessionKeys :
        (appSessions[k] # 0 /\ process' = "running" /\ appSessions'[k] = 0)
        => ( Disconnect /\ \A j \in SessionKeys : appSessions'[j] = 0 ) ]_vars

\* C20 witness: a session that was registered and completed on the first
\* connection is still registered after that socket closed and connect()
\* created the next one.
C20_Witness ==
  /\ process = "running"
  /\ readyState[1] = CLOSED /\ ws = 2 /\ readyState[2] = CONNECTING
  /\ \E k \in SessionKeys :
       appSessions[k] # 0 /\ sessions[appSessions[k]].status = "completed"

\* message is a response to a session-open request that is not an error:
\* a create_app_session response or a balance update.
OpenSucceeds(message) ==
  NormalForm[message.method] \in { NormalForm["create_app_session"], NormalForm["bu"] }

\* C21 (as stated): when a session-open request is resolved by a
\* successful response, a session with status 'open' is registered, under
\* the server-assigned id if the response carries one and under a locally
\* synthesized id if it does not.
C21_OpenRegisters ==
  [][ \A r \in 1..MaxRequests :
        (Pending(r) /\ requests[r].expectedMethod = "create_app_session")
        => \A s \in Sockets, message \in Messages, t \in 0..MaxClock :
             ( /\ OpenSucceeds(message)
               /\ Deliver(s, message, t)
               /\ Resolved(r)' )
             => ( /\ Len(sessions') = Len(sessions) + 1
                  /\ sessions'[Len(sessions')].status = "open"
                  /\ \E k \in SessionKeys :
                       /\ k = IF message.app_session_id # 0
                              THEN message.app_session_id
                              ELSE -(Len(sessions) + 1)
                       /\ appSessions'[k] = Len(sessions') ) ]_vars

\* C22 (as stated): when the socket of a connect() call errors or closes
\* before authentication has completed, the promise of that call is
\* rejected.
C22_ConnectFailureRejects ==
  [][ \A s \in Sockets :
        ( /\ ws = s /\ ~isAuthenticated
          /\ connectPromise[s] # "none"
          /\ SocketError(s) \/ SocketClose(s) )
        => connectPromise'[s] = "rejected" ]_vars

C24_AuthAttemptedGuard ==
  [][ /\ \A s \in Sockets, t \in 0..MaxClock :
           (isAuthAttempted /\ SocketOpen(s, t))
           => ( /\ isAuthAttempted'
                /\ handshake' = handshake
                /\ sessionExpireTimestamp' = sessionExpireTimestamp )
      /\ (handshake'.request # handshake.request /\ process' = "running")
         => (~isAuthAttempted /\ isAuthAttempted')
      /\ (isAuthAttempted /\ ~isAuthAttempted')
         => \/ process' = "exited"
            \/ Disconnect
            \/ \E s \in Sockets : SocketClose(s)
            \/ \E s \in Sockets, message \in Messages, t \in 0..MaxClock :
                 /\ message.method \in { Error, AuthChallenge }
                 /\ Deliver(s, message, t) ]_vars

\* C24 witness: connect() replaced an open socket while the guard was set,
\* and the new socket is open: the auth request in force is still the one
\* drawn at clock 0, although the clock has advanced and a verify was
\* written for it.
C24_Witness ==
  /\ readyState[1] = CLOSING /\ ws = 2 /\ readyState[2] = OPEN
  /\ connectPromise[2] = "resolved"
  /\ isAuthAttempted
  /\ now = 1 /\ handshake.request = NewExpireTimestamp(0)
  /\ handshake.verify = handshake.request

\* C25: in every reachable state a socket that is connecting or open (one
\* that has not been told to close) is this.ws, so there is at most one.
C25_OneLiveSocket ==
  \A s \in Sockets : readyState[s] \in { CONNECTING, OPEN } => ws = s

\* C25 witness: connect() was called while the first socket was open; that
\* socket was told to close (its 'close' event is still to come, so
\* isConnected is still true) and the second socket is connecting.
C25_Witness ==
  /\ readyState[1] = CLOSING /\ isConnected
  /\ ws = 2 /\ readyState[2] = CONNECTING

\* C26: the step that writes the message of request r to the socket leaves
\* r pending with its timeout armed, its handler in requestMap under its id
\* and its record last in pendingByMethod; and a message resolves only a
\* request that is registered in one of the two.
C26_RegisteredBeforeSent ==
  [][ \A r \in 1..MaxRequests :
        /\ Sends(r)
           => ( /\ Pending(r)' /\ requests'[r].timer
                /\ requestMap'[requests'[r].requestId] = r
                /\ Len(pendingByMethod') > 0
                /\ pendingByMethod'[Len(pendingByMethod')] = r )
        /\ Resolves(r) => (InRequestMap(r) \/ InPendingByMethod(r)) ]_vars

\* C26 witness: two requests were sent; the first was resolved by a message
\* and the second is registered in both structures, waiting for its
\* response.
C26_Witness ==
  /\ Len(requests) = 2 /\ Resolved(1) /\ Pending(2)
  /\ requests[2].timer
  /\ requestMap[requests[2].requestId] = 2
  /\ pendingByMethod[Len(pendingByMethod)] = 2

\* C27 (as stated): in every reachable state requestMap and pendingByMethod
\* describe the same set of unsettled requests: every pendingByMethod
\* record has a requestMap entry under its request id and the other way
\* round, and the requests they name are pending.
C27_BookkeepingConsistent ==
  /\ \A i \in 1..Len(pendingByMethod) :
       /\ requestMap[PendingRequestId(pendingByMethod[i])] # 0
       /\ Pending(pendingByMethod[i])
  /\ \A id \in RequestIds :
       requestMap[id] # 0
       => ( /\ \E i \in 1..Len(pendingByMethod) : PendingRequestId(pendingByMethod[i]) = id
            /\ Pending(requestMap[id]) )

\* C28 (as stated): the 'close' event of a socket that a later connect()
\* replaced leaves isConnected, isAuthenticated, isAuthAttempted and the
\* keepalive timer as they are; and whenever this.ws is open, isConnected
\* is true and the keepalive timer is armed.
C28_SupersededIsolation ==
  [][ /\ \A s \in Sockets :
           (ws # 0 /\ s # ws /\ SocketClose(s))
           => UNCHANGED << isConnected, isAuthenticated, isAuthAttempted,
                           keepAliveInterval >>
      /\ (ws' # 0 /\ readyState'[ws'] = OPEN)
         => (isConnected' /\ keepAliveInterval') ]_vars

\* C29 (as stated): in every reachable state isAuthenticated implies
\* isConnected.
C29_AuthenticatedImpliesConnected ==
  isAuthenticated => isConnected

\* C30 (as stated): a call of initializeYellowNetwork() that finds the
\* singleton set resolves only with an instance whose connect() has
\* completed successfully, never while the first connect() is in progress
\* or after it failed.
C30_InitializedMeansConnected ==
  [][ laterCalls' > laterCalls
      => \E s \in Sockets : connectPromise[s] = "resolved" ]_vars

====
